---------------------------- MODULE Spec2Model ----------------------------
(***************************************************************************)
(* Model of ExamSeatingSystem (src/seating_arrangement.py) and of the slot *)
(* loop that drives it (src/app.py).                                       *)
(*                                                                         *)
(* Representation.                                                         *)
(*  - A candidate identifier (a cleaned roll string) is a number of        *)
(*    1..MaxRoll; the order of the numbers is the string order list.sort() *)
(*    uses.  0 is a cell that clean_text turns into "".                    *)
(*  - A Python dict whose values are lists that are non-empty as soon as   *)
(*    the key exists (course_enrollments, room['assignments']) is a        *)
(*    function on Courses whose value is << >> where the key is absent:    *)
(*    dict.get(k, []) and "k not in dict" read the same from both.         *)
(*  - The Date / IsoDate / Day / Session fields that allocate_session      *)
(*    copies from slot_info into its records are one field, Slot.  The     *)
(*    schedule holds one slot per (date, session): the k-th slot of the    *)
(*    schedule has Slot = k.                                               *)
(*  - A room's name is the number of its row in the room sheet.            *)
(***************************************************************************)
EXTENDS Integers, Sequences, FiniteSets, TLC

VARIABLES
    pc,                 \* position of the driver / of allocate_session
    buffer,             \* app.py: st.number_input, min_value = 0
    mode,               \* app.py: mode.lower()
    course_enrollments, \* self.course_enrollments
    rooms,              \* self.rooms
    allocations,        \* self.allocations
    room_stats,         \* self.room_stats
    schedule,           \* the slots of self.schedule handed to allocate_session so far
    clash,              \* what check_clashes returned in the last call
    courses_sorted,     \* allocate_session: courses_sorted
    ci,                 \* index of the course loop (line 218)
    ri,                 \* index of the room loop (line 222)
    students            \* allocate_session: students (working copy)

vars == <<pc, buffer, mode, course_enrollments, rooms, allocations, room_stats,
          schedule, clash, courses_sorted, ci, ri, students>>

-----------------------------------------------------------------------------
(* Bounds *)
MaxRoll == 3
MaxRows == 3
MaxRooms == 2
MaxCap == 3
MaxBuffer == 1
MaxCourses == 2
MaxSlots == 2
OrderCourses == 3
OrderSlots == 1

Courses == {"A", "B", "C"}
\* the courses the sheets of the main specification name
TwoCourses == {"A", "B"}
Rolls == 1..MaxRoll
Modes == {"dense", "sparse"}

SeqsUpTo(S, n) == UNION {[1..k -> S] : k \in 0..n}

\* rows of the enrollment sheet: (course cell, roll cell) after clean_text
EnrolRows(cset) == (cset \cup {""}) \X (0..MaxRoll)
\* rows of the room sheet: the capacity cell (the name is the row number)
CapRows == 0..MaxCap

Min(a, b) == IF a <= b THEN a ELSE b
Max(a, b) == IF a >= b THEN a ELSE b

RECURSIVE SumSeq(_)
SumSeq(s) == IF s = << >> THEN 0 ELSE Head(s) + SumSeq(Tail(s))

-----------------------------------------------------------------------------
(* load_data *)

\* list.sort() of a roster: ascending
RECURSIVE InsertAsc(_, _)
InsertAsc(x, s) ==
    IF s = << >> THEN <<x>>
    ELSE IF x < Head(s) THEN <<x>> \o s
    ELSE <<Head(s)>> \o InsertAsc(x, Tail(s))

RECURSIVE SortRolls(_)
SortRolls(s) ==
    IF s = << >> THEN << >>
    ELSE InsertAsc(s[Len(s)], SortRolls(SubSeq(s, 1, Len(s) - 1)))

\* lines 142-147: one list per course, in row order, blank cells skipped
RECURSIVE AppendRows(_, _)
AppendRows(ce, rows) ==
    IF rows = << >> THEN ce
    ELSE LET c_code == Head(rows)[1]
             r_no   == Head(rows)[2]
             nxt    == IF c_code # "" /\ r_no # 0
                         THEN [ce EXCEPT ![c_code] = Append(@, r_no)]
                         ELSE ce
         IN  AppendRows(nxt, Tail(rows))

\* lines 149-150
SortEnrollments(ce) == [c \in Courses |-> SortRolls(ce[c])]

LoadEnrollments(rows) ==
    SortEnrollments(AppendRows([c \in Courses |-> << >>], rows))

\* line 167: rooms.sort(key = -Capacity), stable
RECURSIVE InsertRoom(_, _)
InsertRoom(r, s) ==
    IF s = << >> THEN <<r>>
    ELSE IF r.Capacity > Head(s).Capacity THEN <<r>> \o s
    ELSE <<Head(s)>> \o InsertRoom(r, Tail(s))

RECURSIVE SortRooms(_)
SortRooms(s) ==
    IF s = << >> THEN << >>
    ELSE InsertRoom(s[Len(s)], SortRooms(SubSeq(s, 1, Len(s) - 1)))

NoAssignments == [c \in Courses |-> << >>]

\* lines 160-167
LoadRooms(caps) ==
    SortRooms([k \in 1..Len(caps) |->
                 [Room |-> k, Capacity |-> caps[k], filled |-> 0,
                  assignments |-> NoAssignments]])

-----------------------------------------------------------------------------
(* check_clashes *)

\* lines 199-202: the rolls of one course against seen_students
\* result: <<clash found, seen_students>>
RECURSIVE ScanRolls(_, _)
ScanRolls(rolls, seen) ==
    IF rolls = << >> THEN <<FALSE, seen>>
    ELSE IF Head(rolls) \in seen THEN <<TRUE, seen>>
    ELSE ScanRolls(Tail(rolls), seen \cup {Head(rolls)})

RECURSIVE ScanCourses(_, _, _)
ScanCourses(cs, ce, seen) ==
    IF cs = << >> THEN FALSE
    ELSE LET r == ScanRolls(ce[Head(cs)], seen)
         IN  IF r[1] THEN TRUE ELSE ScanCourses(Tail(cs), ce, r[2])

\* a variant whose seen_students starts afresh for every course
check_clashes_PerCourse(courses_in_slot, ce) ==
    \E n \in 1..Len(courses_in_slot) : ScanRolls(ce[courses_in_slot[n]], {})[1]
check_clashes(courses_in_slot, ce) == ScanCourses(courses_in_slot, ce, {})

-----------------------------------------------------------------------------
(* allocate_session *)

\* a variant that puts a course before the courses of its size
RECURSIVE InsertCourse_Unstable(_, _, _)
InsertCourse_Unstable(c, s, ce) ==
    IF s = << >> THEN <<c>>
    ELSE IF Len(ce[c]) >= Len(ce[Head(s)]) THEN <<c>> \o s
    ELSE <<Head(s)>> \o InsertCourse_Unstable(c, Tail(s), ce)

\* line 212: sorted(courses, key = len(roster), reverse = True); Python's sort
\* is stable and reverse = True keeps the order of equal keys
RECURSIVE InsertCourse(_, _, _)
InsertCourse(c, s, ce) ==
    IF s = << >> THEN <<c>>
    ELSE IF Len(ce[c]) > Len(ce[Head(s)]) THEN <<c>> \o s
    ELSE <<Head(s)>> \o InsertCourse(c, Tail(s), ce)

RECURSIVE SortCourses(_, _)
SortCourses(cs, ce) ==
    IF cs = << >> THEN << >>
    ELSE InsertCourse(cs[Len(cs)], SortCourses(SubSeq(cs, 1, Len(cs) - 1), ce), ce)

\* a variant that leaves the rooms as the last slot left them
ResetRooms_Keep(rs) == rs
\* lines 207-209
ResetRooms(rs) ==
    [k \in 1..Len(rs) |-> [rs[k] EXCEPT !.filled = 0, !.assignments = NoAssignments]]

\* a variant that forgets the buffer
eff_cap_NoBuffer(capacity, buf) == Max(0, capacity)
\* line 225
eff_cap(capacity, buf) == Max(0, capacity - buf)
\* a variant without the sparse halving
subj_limit_Full(eff, m) == eff
\* a variant that halves in every mode
subj_limit_Half(eff, m) == eff \div 2
\* line 226
subj_limit(eff, m) == IF m = "sparse" THEN eff \div 2 ELSE eff
\* a variant that forgets what the room already holds
space_in_room_Whole(eff, filled) == eff
\* line 227
space_in_room(eff, filled) == eff - filled
\* line 228
take(n, space, limit) == Min(n, Min(space, limit))

\* a variant that takes the batch from the back of the list
batch_of_Last(studs, n) == SubSeq(studs, Len(studs) - n + 1, Len(studs))
\* line 231: students[:take]
batch_of(studs, n) == SubSeq(studs, 1, n)
\* line 232: students[take:]
rest_of(studs, n) == SubSeq(studs, n + 1, Len(studs))

\* a variant that does not subtract the seats taken
RoomStat_FreeIsCapacity(slot, r) ==
    [Slot |-> slot, Room |-> r.Room, Allocated |-> r.filled,
     Free |-> r.Capacity]
\* lines 249-255
RoomStat(slot, r) ==
    [Slot |-> slot, Room |-> r.Room, Allocated |-> r.filled,
     Free |-> r.Capacity - r.filled]

\* a variant that reports the used rooms only
StatsOf_Used(slot, rs) ==
    SelectSeq([k \in 1..Len(rs) |-> RoomStat(slot, rs[k])], LAMBDA st : st.Allocated > 0)
\* lines 248-255
StatsOf(slot, rs) == [k \in 1..Len(rs) |-> RoomStat(slot, rs[k])]

-----------------------------------------------------------------------------
Init ==
    /\ pc = "new"
    /\ buffer \in 0..MaxBuffer
    /\ mode \in Modes
    /\ course_enrollments = [c \in Courses |-> << >>]
    /\ rooms = << >>
    /\ allocations = << >>
    /\ room_stats = << >>
    /\ schedule = << >>
    /\ clash = FALSE
    /\ courses_sorted = << >>
    /\ ci = 0
    /\ ri = 0
    /\ students = << >>

\* load_data (lines 83-193): the enrollment sheet and the room sheet
LoadData(cset) ==
    /\ pc = "new"
    /\ \E rows \in SeqsUpTo(EnrolRows(cset), MaxRows), caps \in SeqsUpTo(CapRows, MaxRooms) :
          /\ course_enrollments' = LoadEnrollments(rows)
          /\ rooms' = LoadRooms(caps)
    /\ pc' = "idle"
    /\ UNCHANGED <<buffer, mode, allocations, room_stats, schedule, clash,
                   courses_sorted, ci, ri, students>>

\* app.py line 90 and allocate_session lines 206-216
AllocBegin(cset, maxLen, maxSlots) ==
    /\ pc = "idle"
    /\ Len(schedule) < maxSlots
    /\ \E courses \in SeqsUpTo(cset, maxLen) :
          /\ schedule' = Append(schedule, [Slot |-> Len(schedule) + 1, Courses |-> courses])
          /\ courses_sorted' = SortCourses(courses, course_enrollments)
          /\ clash' = check_clashes(courses, course_enrollments)
    /\ rooms' = ResetRooms(rooms)
    /\ pc' = IF clash' THEN "idle" ELSE "course"
    /\ ci' = 1
    /\ ri' = 0
    /\ students' = << >>
    /\ UNCHANGED <<buffer, mode, course_enrollments, allocations, room_stats>>

slot_info == schedule[Len(schedule)]

\* lines 218-220: the head of the course loop
CourseStep ==
    /\ pc = "course"
    /\ IF ci > Len(courses_sorted)
         THEN /\ pc' = "stats"
              /\ UNCHANGED <<ci, ri, students>>
         ELSE LET roster == course_enrollments[courses_sorted[ci]]
              IN  /\ students' = roster
                  /\ IF roster = << >>
                       THEN /\ ci' = ci + 1
                            /\ UNCHANGED <<pc, ri>>
                       ELSE /\ ri' = 1
                            /\ pc' = "room"
                            /\ UNCHANGED ci
    /\ UNCHANGED <<buffer, mode, course_enrollments, rooms, allocations, room_stats,
                   schedule, clash, courses_sorted>>

\* lines 222-246: one iteration of the room loop
RoomStep ==
    /\ pc = "room"
    /\ IF ri > Len(rooms) \/ students = << >>
         THEN /\ ci' = ci + 1
              /\ pc' = "course"
              /\ UNCHANGED <<ri, students, rooms, allocations>>
         ELSE LET room   == rooms[ri]
                  course == courses_sorted[ci]
                  eff    == eff_cap(room.Capacity, buffer)
                  limit  == subj_limit(eff, mode)
                  space  == space_in_room(eff, room.filled)
                  tk     == take(Len(students), space, limit)
                  batch  == batch_of(students, tk)
              IN  /\ IF tk > 0
                       THEN /\ students' = rest_of(students, tk)
                            /\ rooms' = [rooms EXCEPT
                                 ![ri].filled = @ + tk,
                                 ![ri].assignments[course] = @ \o batch]
                            /\ allocations' = Append(allocations,
                                 [Slot |-> slot_info.Slot, Course |-> course,
                                  Room |-> room.Room, Count |-> tk, Students |-> batch])
                       ELSE UNCHANGED <<students, rooms, allocations>>
                  /\ ri' = ri + 1
                  /\ UNCHANGED <<pc, ci>>
    /\ UNCHANGED <<buffer, mode, course_enrollments, room_stats, schedule, clash,
                   courses_sorted>>

\* lines 248-255, then the return to the slot loop
StatsStep ==
    /\ pc = "stats"
    /\ room_stats' = room_stats \o StatsOf(slot_info.Slot, rooms)
    /\ pc' = "idle"
    /\ UNCHANGED <<buffer, mode, course_enrollments, rooms, allocations, schedule,
                   clash, courses_sorted, ci, ri, students>>

Next ==
    \/ LoadData(TwoCourses)
    \/ AllocBegin(TwoCourses, MaxCourses, MaxSlots)
    \/ CourseStep
    \/ RoomStep
    \/ StatsStep

Spec == Init /\ [][Next]_vars

\* one slot of up to OrderCourses courses out of three
NextOrder ==
    \/ LoadData(Courses)
    \/ AllocBegin(Courses, OrderCourses, OrderSlots)
    \/ CourseStep
    \/ RoomStep
    \/ StatsStep

SpecOrder == Init /\ [][NextOrder]_vars

-----------------------------------------------------------------------------
(* allocate_session as one function of the room pool and the slot: what the *)
(* call leaves in the rooms and what it appends to the two logs             *)

\* lines 222-246: the room loop of one course, from room r on
\* st = [rooms, students, allocations]
RECURSIVE SeatInRooms(_, _, _, _)
SeatInRooms(st, r, course, slot) ==
    IF r > Len(st.rooms) \/ st.students = << >> THEN st
    ELSE LET room  == st.rooms[r]
             eff   == eff_cap(room.Capacity, buffer)
             limit == subj_limit(eff, mode)
             space == space_in_room(eff, room.filled)
             tk    == take(Len(st.students), space, limit)
             batch == batch_of(st.students, tk)
             nxt   == IF tk > 0
                        THEN [rooms |-> [st.rooms EXCEPT
                                 ![r].filled = @ + tk,
                                 ![r].assignments[course] = @ \o batch],
                              students |-> rest_of(st.students, tk),
                              allocations |-> Append(st.allocations,
                                 [Slot |-> slot, Course |-> course, Room |-> room.Room,
                                  Count |-> tk, Students |-> batch])]
                        ELSE st
         IN  SeatInRooms(nxt, r + 1, course, slot)

\* lines 218-246: the course loop
RECURSIVE SeatCourses(_, _, _, _)
SeatCourses(rs, allocs, cs, slot) ==
    IF cs = << >> THEN [rooms |-> rs, allocations |-> allocs]
    ELSE LET st == SeatInRooms([rooms |-> rs,
                                students |-> course_enrollments[Head(cs)],
                                allocations |-> allocs], 1, Head(cs), slot)
         IN  SeatCourses(st.rooms, st.allocations, Tail(cs), slot)

\* lines 205-255
allocate_session(pool, slot) ==
    LET reset  == ResetRooms(pool)
        sorted == SortCourses(slot.Courses, course_enrollments)
    IN  IF check_clashes(slot.Courses, course_enrollments)
          THEN [rooms |-> reset, allocations |-> << >>, room_stats |-> << >>]
          ELSE LET done == SeatCourses(reset, << >>, sorted, slot.Slot)
               IN  [rooms |-> done.rooms, allocations |-> done.allocations,
                    room_stats |-> StatsOf(slot.Slot, done.rooms)]

\* lines 161-166: the pool as load_data seeds it, nothing seated
SeededPool(rs) ==
    [k \in 1..Len(rs) |->
        [Room |-> rs[k].Room, Capacity |-> rs[k].Capacity, filled |-> 0,
         assignments |-> NoAssignments]]

-----------------------------------------------------------------------------
(* Vocabulary of the properties *)

\* the Allocation Records of slot k, in log order
SlotAllocs(k) == SelectSeq(allocations, LAMBDA a : a.Slot = k)
\* the Room Statistics of slot k, in log order
SlotStats(k) == SelectSeq(room_stats, LAMBDA s : s.Slot = k)

RECURSIVE SumCount(_)
SumCount(recs) == IF recs = << >> THEN 0 ELSE Head(recs).Count + SumCount(Tail(recs))

\* candidates seated in a room in slot k, and those of one course
SeatedInRoom(k, name) ==
    SumCount(SelectSeq(SlotAllocs(k), LAMBDA a : a.Room = name))
SeatedOfCourseInRoom(k, c, name) ==
    SumCount(SelectSeq(SlotAllocs(k), LAMBDA a : a.Room = name /\ a.Course = c))
SeatedOfCourse(k, c) ==
    SumCount(SelectSeq(SlotAllocs(k), LAMBDA a : a.Course = c))

RoomIdx == 1..Len(rooms)
SlotIdx == 1..Len(schedule)
\* slot k has been processed to its end
Finished(k) == k < Len(schedule) \/ (k = Len(schedule) /\ pc = "idle")
Effective(r) == IF rooms[r].Capacity - buffer > 0 THEN rooms[r].Capacity - buffer ELSE 0

-----------------------------------------------------------------------------
\* C1 - Capacity invariant: in every slot and every room, the Counts of the
\* Allocation Records of that (slot, room) add up to at most the room's
\* Capacity (either mode, any buffer >= 0, any sequence of slots).
C1_CapacityInvariant ==
    \A k \in SlotIdx : \A r \in RoomIdx :
        SeatedInRoom(k, rooms[r].Room) <= rooms[r].Capacity

\* two slots processed; in the second a room is filled to its Capacity by the
\* records of two courses, after it was already used in the first
C1_Witness ==
    /\ pc = "idle"
    /\ Len(schedule) = 2
    /\ \E r \in RoomIdx :
          /\ SeatedInRoom(1, rooms[r].Room) > 0
          /\ SeatedInRoom(2, rooms[r].Room) = rooms[r].Capacity
          /\ \E c, d \in Courses :
                /\ c # d
                /\ SeatedOfCourseInRoom(2, c, rooms[r].Room) > 0
                /\ SeatedOfCourseInRoom(2, d, rooms[r].Room) > 0

\* C2 - Buffer respected: a room with Capacity >= buffer never holds more
\* than Capacity - buffer candidates, at any point of any slot, and every
\* Room Statistic of such a room reports Free >= buffer.
C2_BufferRespected ==
    /\ \A r \in RoomIdx :
          rooms[r].Capacity >= buffer =>
              rooms[r].filled <= rooms[r].Capacity - buffer
    /\ \A i \in 1..Len(room_stats) : \A r \in RoomIdx :
          (rooms[r].Room = room_stats[i].Room /\ rooms[r].Capacity >= buffer) =>
              room_stats[i].Free >= buffer

\* buffer 1: a room was filled up to Capacity - buffer, candidates of the
\* slot were left over, and its Room Statistic reports exactly the buffer free
C2_Witness ==
    /\ pc = "idle"
    /\ buffer > 0
    /\ \E i \in 1..Len(room_stats) : \E r \in RoomIdx : \E c \in Courses :
          /\ rooms[r].Room = room_stats[i].Room
          /\ room_stats[i].Slot = Len(schedule)
          /\ room_stats[i].Allocated > 0
          /\ room_stats[i].Free = buffer
          /\ SeatedOfCourse(Len(schedule), c) < Len(course_enrollments[c])
          /\ SeatedOfCourse(Len(schedule), c) > 0

\* C3 - Sparse half-limit: in sparse mode no course has more candidates in
\* one room in one slot than floor(max(0, Capacity - buffer) / 2), counted
\* by the Allocation Records and by room.assignments[course].
C3_SparseHalfLimit ==
    mode = "sparse" =>
        \A r \in RoomIdx : \A c \in Courses :
            /\ Len(rooms[r].assignments[c]) <= Effective(r) \div 2
            /\ \A k \in SlotIdx :
                  SeatedOfCourseInRoom(k, c, rooms[r].Room) <= Effective(r) \div 2

\* sparse mode: a course reached its half of a room and still has unseated
\* candidates while the room has free effective seats
C3_Witness ==
    /\ mode = "sparse"
    /\ pc = "idle"
    /\ \E r \in RoomIdx : \E c \in Courses :
          /\ Effective(r) \div 2 >= 1
          /\ Len(rooms[r].assignments[c]) = Effective(r) \div 2
          /\ SeatedOfCourseInRoom(Len(schedule), c, rooms[r].Room) = Effective(r) \div 2
          /\ rooms[r].filled < Effective(r)
          /\ SeatedOfCourse(Len(schedule), c) < Len(course_enrollments[c])

-----------------------------------------------------------------------------
RollsOf(c) == {course_enrollments[c][n] : n \in 1..Len(course_enrollments[c])}

\* two different courses of the list have a candidate in common
Shares(cs) ==
    \E m, n \in 1..Len(cs) : cs[m] # cs[n] /\ RollsOf(cs[m]) \cap RollsOf(cs[n]) # {}

AllReset(rs) ==
    \A r \in 1..Len(rs) : rs[r].filled = 0 /\ rs[r].assignments = NoAssignments

\* C4 - Clash skip: when two courses of the slot's list share a candidate,
\* the call of allocate_session returns having appended no Allocation Record
\* and no Room Statistic (so none of that slot shows Allocated > 0), with
\* every room at filled = 0 and no assignments; the logs of the other slots
\* are as they were.
C4_ClashSkip ==
    [][(Len(schedule') = Len(schedule) + 1 /\ Shares(schedule'[Len(schedule')].Courses)) =>
          /\ pc' = "idle"
          /\ allocations' = allocations
          /\ room_stats' = room_stats
          /\ AllReset(rooms')]_vars

\* the second slot has two courses with a common candidate; the first slot
\* left records, statistics and filled rooms behind
C4_Witness ==
    /\ pc = "idle"
    /\ Len(schedule) = 2
    /\ Shares(schedule[2].Courses)
    /\ clash
    /\ SlotAllocs(1) # << >>
    /\ SlotAllocs(1) = allocations
    /\ SlotStats(1) = room_stats
    /\ room_stats # << >>
    /\ AllReset(rooms)

\* C5 - Clash Detector correctness: check_clashes returns true exactly when
\* some candidate is claimed by two different courses of the slot.
C5_ClashDetectorExact ==
    Len(schedule) > 0 => (clash <=> Shares(schedule[Len(schedule)].Courses))

\* the Room Statistics of slot k: one per room, in pool order, Allocated the
\* seats the slot's records fill in that room, Free the rest of the Capacity
StatsComplete(k) ==
    /\ Len(SlotStats(k)) = Len(rooms)
    /\ \A r \in RoomIdx :
          /\ SlotStats(k)[r].Room = rooms[r].Room
          /\ SlotStats(k)[r].Allocated = SeatedInRoom(k, rooms[r].Room)
          /\ SlotStats(k)[r].Free = rooms[r].Capacity - SeatedInRoom(k, rooms[r].Room)
          /\ k = Len(schedule) => SlotStats(k)[r].Allocated = rooms[r].filled

\* the detector's answer for slot k is the right one
RightlyJudged(k) ==
    check_clashes(schedule[k].Courses, course_enrollments) <=> Shares(schedule[k].Courses)

\* C6 (as claimed) - Room Statistic completeness: exactly one entry per
\* (processed slot, room), Allocated = final filled, Free = Capacity - Allocated.
\* Stated for the slots the detector judges rightly, which the claim covers
\* too: a violation here is one of the claim that owes nothing to C5.
C6_StatsEverySlot ==
    \A k \in SlotIdx : (Finished(k) /\ RightlyJudged(k)) => StatsComplete(k)

\* C6 (amended) - exactly one entry per (processed slot that check_clashes did
\* not flag, room), used or not, Allocated = final filled and
\* Free = Capacity - Allocated; no entry for a slot that check_clashes flagged.
C6_StatsEveryAllocatedSlot ==
    \A k \in SlotIdx : Finished(k) =>
        IF check_clashes(schedule[k].Courses, course_enrollments)
          THEN SlotStats(k) = << >>
          ELSE StatsComplete(k)

\* two slots, neither flagged, two rooms, one of them unused in the last slot,
\* the other one used
C6_Witness ==
    /\ pc = "idle"
    /\ Len(schedule) = 2
    /\ Len(rooms) = 2
    /\ Len(room_stats) = 4
    /\ \E r, q \in RoomIdx :
          /\ SlotStats(2)[r].Allocated = 0
          /\ SlotStats(2)[r].Free = rooms[r].Capacity
          /\ SlotStats(2)[q].Allocated > 0
          /\ SlotStats(1)[q].Allocated > 0

Perms(n) == {p \in [1..n -> 1..n] : \A a, b \in 1..n : a # b => p[a] # p[b]}
Size(c) == Len(course_enrollments[c])

\* out is cs by descending enrollment size, equal sizes in the order of cs
StableDescending(out, cs) ==
    /\ Len(out) = Len(cs)
    /\ \E p \in Perms(Len(cs)) :
          /\ \A n \in 1..Len(cs) : out[n] = cs[p[n]]
          /\ \A m, n \in 1..Len(cs) : m < n =>
                \/ Size(cs[p[m]]) > Size(cs[p[n]])
                \/ Size(cs[p[m]]) = Size(cs[p[n]]) /\ p[m] < p[n]

FirstPos(s, c) == CHOOSE n \in 1..Len(s) : s[n] = c /\ \A m \in 1..(n - 1) : s[m] # c

\* C7 - Largest-first ordering: the courses of a slot are processed in
\* descending enrollment size, courses of equal size in the order of the
\* slot's list; the records of a course precede those of every course
\* processed after it.
C7_LargestFirst ==
    Len(schedule) > 0 =>
        LET k  == Len(schedule)
            cs == schedule[k].Courses
        IN  /\ StableDescending(courses_sorted, cs)
            /\ pc \in {"course", "room"} /\ ci <= Len(courses_sorted) =>
                  \A a \in 1..Len(SlotAllocs(k)) :
                      FirstPos(courses_sorted, SlotAllocs(k)[a].Course) <= ci
            /\ \A a, b \in 1..Len(SlotAllocs(k)) : a < b =>
                  FirstPos(courses_sorted, SlotAllocs(k)[a].Course)
                      <= FirstPos(courses_sorted, SlotAllocs(k)[b].Course)

\* the list A, B, C with Size(A) > Size(C) > Size(B) was processed A, C, B and
\* the records of A precede those of C; and a list with two courses of equal
\* size keeps them in list order
C7_Witness ==
    /\ pc = "idle"
    /\ ~clash
    /\ Len(schedule) > 0
    /\ schedule[Len(schedule)].Courses = <<"A", "B", "C">>
    /\ Size("A") > Size("C")
    /\ Size("C") > Size("B")
    /\ courses_sorted = <<"A", "C", "B">>
    /\ Len(allocations) >= 2
    /\ allocations[1].Course = "A"
    /\ allocations[Len(allocations)].Course = "C"

\* every roster of the list is empty (an empty list included)
AllEmpty(cs) == \A n \in 1..Len(cs) : course_enrollments[cs[n]] = << >>

Demand(cs) == SumSeq([n \in 1..Len(cs) |-> Size(cs[n])])
TotalEffective == SumSeq([r \in RoomIdx |-> Effective(r)])
InList(cs) == {cs[n] : n \in 1..Len(cs)}

\* C8 (as claimed) - Overflow only on exhaustion: in a slot that was
\* allocated, in either mode, a course has candidates without a record only
\* if the demand of the slot exceeds the total effective capacity and every
\* room is filled to its effective capacity.
C8_OverflowOnlyWhenFull ==
    (pc = "idle" /\ Len(schedule) > 0 /\ ~clash) =>
        LET k == Len(schedule)
        IN  \A c \in InList(schedule[k].Courses) :
                SeatedOfCourse(k, c) < Size(c) =>
                    /\ Demand(schedule[k].Courses) > TotalEffective
                    /\ \A r \in RoomIdx : rooms[r].filled = Effective(r)

\* C8 (amended) - in a slot that check_clashes did not flag, a course has
\* candidates without a record only if every room is filled to its effective
\* capacity or, in sparse mode, already holds floor(effective / 2) candidates
\* of that course; in dense mode the demand of the slot then exceeds the total
\* effective capacity and every room is full.
C8_OverflowOnlyWhenNoRoomTakes ==
    (pc = "idle" /\ Len(schedule) > 0 /\ ~clash) =>
        LET k == Len(schedule)
        IN  \A c \in InList(schedule[k].Courses) :
                SeatedOfCourse(k, c) < Size(c) =>
                    /\ \A r \in RoomIdx :
                          \/ rooms[r].filled = Effective(r)
                          \/ /\ mode = "sparse"
                             /\ Len(rooms[r].assignments[c]) = Effective(r) \div 2
                    /\ mode # "sparse" =>
                          /\ Demand(schedule[k].Courses) > TotalEffective
                          /\ \A r \in RoomIdx : rooms[r].filled = Effective(r)

\* dense mode, two rooms with seats, two courses: the rooms are full and a
\* course is partly seated, partly left over
C8_Witness ==
    /\ pc = "idle"
    /\ Len(schedule) > 0
    /\ ~clash
    /\ mode = "dense"
    /\ Len(rooms) = 2
    /\ \A r \in RoomIdx : Effective(r) > 0 /\ rooms[r].filled = Effective(r)
    /\ \E c \in InList(schedule[Len(schedule)].Courses) :
          /\ SeatedOfCourse(Len(schedule), c) > 0
          /\ SeatedOfCourse(Len(schedule), c) < Size(c)

\* sparse mode: a course is left with unseated candidates although a room has
\* free effective seats, the course being at its half of every room
C8_WitnessSparse ==
    /\ pc = "idle"
    /\ Len(schedule) > 0
    /\ ~clash
    /\ mode = "sparse"
    /\ \E c \in InList(schedule[Len(schedule)].Courses) :
          /\ SeatedOfCourse(Len(schedule), c) > 0
          /\ SeatedOfCourse(Len(schedule), c) < Size(c)
          /\ \E r \in RoomIdx : rooms[r].filled < Effective(r)

\* C9 (as claimed) - Empty course list is a no-op: a slot whose list is empty,
\* or whose courses all have empty rosters, appends nothing to the allocation
\* log and nothing to the room-stats log.
C9_EmptySlotAppendsNothing ==
    \A k \in SlotIdx : AllEmpty(schedule[k].Courses) =>
        SlotAllocs(k) = << >> /\ SlotStats(k) = << >>

\* C9 (amended) - such a slot raises no error, appends nothing to the
\* allocation log, and appends to the room-stats log one Room Statistic per
\* room, with Allocated = 0 and Free = Capacity (so nothing only when there is
\* no room).
C9_EmptySlotAppendsOnlyStats ==
    \A k \in SlotIdx : AllEmpty(schedule[k].Courses) =>
        /\ SlotAllocs(k) = << >>
        /\ k = Len(schedule) => AllReset(rooms)
        /\ IF Finished(k)
             THEN /\ Len(SlotStats(k)) = Len(rooms)
                  /\ \A r \in RoomIdx :
                        SlotStats(k)[r] = [Slot |-> k, Room |-> rooms[r].Room,
                                           Allocated |-> 0, Free |-> rooms[r].Capacity]
             ELSE SlotStats(k) = << >>

\* an empty list after a slot that seated candidates, and a list of a course
\* without roster, with rooms in the pool
C9_Witness ==
    /\ pc = "idle"
    /\ Len(schedule) = 2
    /\ schedule[2].Courses = << >>
    /\ rooms # << >>
    /\ SlotAllocs(1) # << >>
    /\ Len(SlotStats(2)) = Len(rooms)

\* C10 - Enrollment Index uniqueness: load_data maps each course to a sorted
\* list in which no candidate identifier occurs twice.
C10_RostersSortedUnique ==
    pc # "new" =>
        \A c \in Courses : \A m, n \in 1..Len(course_enrollments[c]) :
            m < n => course_enrollments[c][m] < course_enrollments[c][n]

-----------------------------------------------------------------------------
\* a log without the slot fields its records copy from slot_info
WithoutSlot(recs) == [n \in 1..Len(recs) |-> [recs[n] EXCEPT !.Slot = 0]]
\* the rooms in pool order, with their capacities
PoolOrder(rs) == [r \in 1..Len(rs) |-> <<rs[r].Room, rs[r].Capacity>>]

\* what slot k appended is what allocate_session appends on a seeded pool;
\* two slots with the same course list appended the same records
NoLeak ==
    \A k \in SlotIdx : Finished(k) =>
        /\ SlotAllocs(k) = allocate_session(SeededPool(rooms), schedule[k]).allocations
        /\ SlotStats(k) = allocate_session(SeededPool(rooms), schedule[k]).room_stats
        /\ \A j \in SlotIdx : (Finished(j) /\ schedule[j].Courses = schedule[k].Courses) =>
              /\ WithoutSlot(SlotAllocs(j)) = WithoutSlot(SlotAllocs(k))
              /\ WithoutSlot(SlotStats(j)) = WithoutSlot(SlotStats(k))

\* C11 - No leak between slots: the Allocation Records and Room Statistics
\* appended for a slot are those allocate_session appends for it on a freshly
\* seeded pool, whatever slots were processed before; the same course list
\* processed twice appends the same records twice (the slot fields apart, which
\* are copied from slot_info); no step of allocate_session changes the order
\* or the capacities of the rooms.
C11_NoLeakBetweenSlots ==
    /\ []NoLeak
    /\ [][pc # "new" => PoolOrder(rooms') = PoolOrder(rooms)]_vars

\* the same course list twice: the first slot filled a room to its effective
\* capacity and left candidates over, the second seated the same candidates
C11_Witness ==
    /\ pc = "idle"
    /\ Len(schedule) = 2
    /\ ~clash
    /\ schedule[1].Courses = schedule[2].Courses
    /\ SlotAllocs(2) # << >>
    /\ WithoutSlot(SlotAllocs(1)) = WithoutSlot(SlotAllocs(2))
    /\ Len(SlotStats(2)) = Len(rooms)
    /\ \E r \in RoomIdx :
          /\ Effective(r) > 0
          /\ SeatedInRoom(1, rooms[r].Room) = Effective(r)
          /\ SeatedInRoom(2, rooms[r].Room) = Effective(r)
    /\ \E c \in InList(schedule[1].Courses) :
          SeatedOfCourse(1, c) < Size(c)

-----------------------------------------------------------------------------
\* the Allocation Records of course c in slot k, in log order
CourseAllocs(k, c) == SelectSeq(SlotAllocs(k), LAMBDA a : a.Course = c)

RECURSIVE ConcatStudents(_)
ConcatStudents(recs) ==
    IF recs = << >> THEN << >> ELSE Head(recs).Students \o ConcatStudents(Tail(recs))

\* the position of the room of that name in the pool
PoolPos(name) == CHOOSE r \in RoomIdx : rooms[r].Room = name

FrontToBack ==
    /\ \A r, q \in RoomIdx : r < q => rooms[r].Capacity >= rooms[q].Capacity
    /\ \A k \in SlotIdx : \A c \in Courses :
          LET recs == CourseAllocs(k, c)
              all  == ConcatStudents(recs)
          IN  /\ Len(all) <= Size(c)
              /\ all = SubSeq(course_enrollments[c], 1, Len(all))
              /\ \A n \in 1..Len(recs) :
                    /\ recs[n].Count = Len(recs[n].Students)
                    /\ recs[n].Count > 0
              /\ \A m, n \in 1..Len(recs) :
                    m < n => PoolPos(recs[m].Room) < PoolPos(recs[n].Room)

\* C12 - Front-to-back consumption: in every slot, the candidate lists of a
\* course's Allocation Records, concatenated in log order, are a prefix of the
\* course's sorted enrollment list; the records follow the pool's
\* descending-capacity order with at most one record per room; each Count is
\* the length of the record's list and is > 0; the enrollment index is never
\* changed by allocate_session.
C12_FrontToBack ==
    /\ []FrontToBack
    /\ [][pc # "new" => course_enrollments' = course_enrollments]_vars

\* a course of three candidates has records in two rooms, the first two
\* candidates in pool order, and the third was left over
C12_Witness ==
    /\ pc = "idle"
    /\ Len(schedule) > 0
    /\ \E c \in Courses :
          /\ Size(c) = 3
          /\ Len(CourseAllocs(Len(schedule), c)) = 2
          /\ ConcatStudents(CourseAllocs(Len(schedule), c))
                = SubSeq(course_enrollments[c], 1, 2)
          /\ course_enrollments[c][1] < course_enrollments[c][2]

=============================================================================
